---------------------------- MODULE Spec2Model ----------------------------
(***************************************************************************)
(* Model of src/app.py: the heat-wave dashboard.                           *)
(*                                                                         *)
(* The program reads one spreadsheet at start-up (load_data), derives the  *)
(* globals cidades and anos, builds the layout, and then serves two        *)
(* callbacks (update_temp, update_hw) that call four aggregation functions *)
(* over the loaded table df.                                               *)
(*                                                                         *)
(* Columns the aggregations never read (tempMax, tempMin, Lat, Long) are   *)
(* not part of a row here.  tempMed is an integer number of degrees and    *)
(* means are exact rationals.                                              *)
(***************************************************************************)
EXTENDS Integers, Sequences, FiniteSets, TLC

VARIABLES
    file,     \* the spreadsheet at excel_path: readable or not, and its rows
    pc,       \* start-up position: "start", "loaded", "ready", "serving", "failed"
    error,    \* where start-up raised: "none", "load_data", "layout"
    df,       \* the global table returned by load_data
    cidades,  \* global: sorted(df["cidade"].unique())
    anos,     \* global: sorted(df["year"].unique())
    call,     \* the last invocation: function or callback name and its arguments
    out,      \* what that invocation returned
    clients   \* the UI sessions that have issued a callback so far

vars == <<file, pc, error, df, cidades, anos, call, out, clients>>

---------------------------------------------------------------------------
(* Bounds of the model *)

MaxRows == 3

\* the UI sessions that issue callbacks
Sessions == {"s1", "s2"}

---------------------------------------------------------------------------
(* Values: pandas floats (NaN), timestamps (NaT), text as character lists  *)

NaN == [nan |-> TRUE, v |-> 0]
Num(n) == [nan |-> FALSE, v |-> n]

\* IEEE comparisons: every comparison with NaN is false
FEq(a, b) == ~a.nan /\ ~b.nan /\ a.v = b.v
FGe(a, b) == ~a.nan /\ ~b.nan /\ a.v >= b.v
FLe(a, b) == ~a.nan /\ ~b.nan /\ a.v <= b.v

NaT == [nat |-> TRUE, y |-> 0, m |-> 0, d |-> 0]
Stamp(y, m, d) == [nat |-> FALSE, y |-> y, m |-> m, d |-> d]

\* datetime.date ordering; a comparison with NaT is false
DateLT(a, b) ==
    /\ ~a.nat /\ ~b.nat
    /\ \/ a.y < b.y
       \/ a.y = b.y /\ a.m < b.m
       \/ a.y = b.y /\ a.m = b.m /\ a.d < b.d

\* raw cell values of the isHW column
StrVal(s) == [kind |-> "str", s |-> s, b |-> FALSE, n |-> 0]
BoolVal(b) == [kind |-> "bool", s |-> <<>>, b |-> b, n |-> 0]
IntVal(n) == [kind |-> "int", s |-> <<>>, b |-> FALSE, n |-> n]
Missing == [kind |-> "nan", s |-> <<>>, b |-> FALSE, n |-> 0]

\* raw cell values of the index column
DateCell(y, m, d) == [kind |-> "date", y |-> y, m |-> m, d |-> d]
TextCell == [kind |-> "text", y |-> 0, m |-> 0, d |-> 0]
BlankCell == [kind |-> "blank", y |-> 0, m |-> 0, d |-> 0]

DigitChars == <<"0", "1", "2", "3", "4", "5", "6", "7", "8", "9">>

RECURSIVE Digits(_)
Digits(n) == IF n < 10 THEN <<DigitChars[n + 1]>>
             ELSE Digits(n \div 10) \o <<DigitChars[(n % 10) + 1]>>

\* str(x) of a cell value
PyStr(x) ==
    CASE x.kind = "str" -> x.s
      [] x.kind = "bool" -> IF x.b THEN <<"T", "r", "u", "e">>
                            ELSE <<"F", "a", "l", "s", "e">>
      [] x.kind = "int" -> Digits(x.n)
      [] x.kind = "nan" -> <<"n", "a", "n">>

UpperOf ==
    [a |-> "A", b |-> "B", c |-> "C", d |-> "D", e |-> "E", f |-> "F",
     g |-> "G", h |-> "H", i |-> "I", j |-> "J", k |-> "K", l |-> "L",
     m |-> "M", n |-> "N", o |-> "O", p |-> "P", q |-> "Q", r |-> "R",
     s |-> "S", t |-> "T", u |-> "U", v |-> "V", w |-> "W", x |-> "X",
     y |-> "Y", z |-> "Z"]

\* str.upper(): lower-case letters change, everything else stays
Upper(s) == [i \in 1..Len(s) |-> IF s[i] \in DOMAIN UpperOf THEN UpperOf[s[i]] ELSE s[i]]

TRUE_STR == <<"T", "R", "U", "E">>

---------------------------------------------------------------------------
(* The spreadsheets the model reads *)

\* sort order of the city names (Olinda has no row in any spreadsheet)
CityNames == <<"Natal", "Olinda", "Recife">>

RawRow(c, ix, hw, t) == [cidade |-> c, index |-> ix, isHW |-> hw, tempMed |-> t]

RawRows ==
    { RawRow("Recife", DateCell(2020, 1, 5), StrVal(<<"T", "R", "U", "E">>), 20),
      RawRow("Recife", DateCell(2020, 1, 20), StrVal(<<"t", "r", "u", "e">>), 26),
      RawRow("Recife", DateCell(2020, 3, 2), BoolVal(TRUE), 23),
      RawRow("Recife", DateCell(2021, 7, 15), StrVal(<<"T", "r", "u", "e">>), 26),
      RawRow("Recife", TextCell, StrVal(<<"T", "R", "U", "E">>), 23),
      RawRow("Recife", DateCell(2020, 3, 2), StrVal(<<" ", "T", "R", "U", "E">>), 20),
      RawRow("Recife", DateCell(2021, 7, 15), Missing, 20),
      RawRow("Natal", DateCell(2020, 1, 5), BoolVal(FALSE), 20),
      RawRow("Natal", DateCell(1980, 12, 31), StrVal(<<"T", "R", "U", "E">>), 26),
      RawRow("Natal", DateCell(2021, 7, 15), IntVal(1), 23),
      RawRow("Natal", BlankCell, StrVal(<<"y", "e", "s">>), 20) }

RECURSIVE SeqsUpTo(_, _)
SeqsUpTo(S, n) ==
    IF n = 0 THEN {<<>>}
    ELSE LET shorter == SeqsUpTo(S, n - 1)
         IN shorter \cup {Append(s, r) : s \in {q \in shorter : Len(q) = n - 1}, r \in S}

\* the rows of the spreadsheets the running program is checked on
AppRows ==
    { RawRow("Recife", DateCell(2020, 1, 5), StrVal(<<"T", "R", "U", "E">>), 20),
      RawRow("Recife", DateCell(2021, 7, 15), StrVal(<<"T", "r", "u", "e">>), 26),
      RawRow("Recife", TextCell, StrVal(<<"T", "R", "U", "E">>), 23),
      RawRow("Natal", DateCell(2020, 1, 5), BoolVal(FALSE), 20),
      RawRow("Natal", DateCell(1980, 12, 31), StrVal(<<"T", "R", "U", "E">>), 26) }

FilesOf(rows) ==
    {[readable |-> FALSE, rows |-> <<>>]}
        \cup {[readable |-> TRUE, rows |-> rs] : rs \in SeqsUpTo(rows, MaxRows)}

---------------------------------------------------------------------------
(* load_data *)

\* pd.to_datetime(..., errors="coerce"): a date cell parses, anything else is NaT
to_datetime(cell) ==
    IF cell.kind = "date" THEN Stamp(cell.y, cell.m, cell.d) ELSE NaT

\* Faulty variant of NormalizeFlag: the text is not upper-cased.
NormalizeFlag_no_upper(x) == PyStr(x)

\* lambda x: str(x).upper()
NormalizeFlag(x) == Upper(PyStr(x))

dt_year(ts) == IF ts.nat THEN NaN ELSE Num(ts.y)
dt_month(ts) == IF ts.nat THEN NaN ELSE Num(ts.m)

load_row(r) ==
    LET ts == to_datetime(r.index)
    IN [cidade |-> r.cidade, index |-> ts, isHW |-> NormalizeFlag(r.isHW),
        tempMed |-> r.tempMed, year |-> dt_year(ts), month |-> dt_month(ts)]

load_data(rows) == [i \in 1..Len(rows) |-> load_row(rows[i])]

---------------------------------------------------------------------------
(* Start-up *)

NoCall == [fn |-> "none"]

InitWith(files) ==
    /\ file \in files
    /\ pc = "start"
    /\ error = "none"
    /\ df = <<>>
    /\ cidades = <<>>
    /\ anos = <<>>
    /\ call = NoCall
    /\ out = <<>>
    /\ clients = {}

\* line 25: df = load_data(); pd.read_excel raises on an unreadable resource
LoadData ==
    /\ pc = "start"
    /\ IF file.readable
       THEN /\ df' = load_data(file.rows)
            /\ pc' = "loaded"
            /\ error' = error
       ELSE /\ pc' = "failed"
            /\ error' = "load_data"
            /\ df' = df
    /\ UNCHANGED <<file, cidades, anos, call, out, clients>>

\* the distinct values of a column, as a set
Unique(t, col) == {t[i][col] : i \in 1..Len(t)}

RECURSIVE SortAsc(_)
SortAsc(S) ==
    IF S = {} THEN <<>>
    ELSE LET least == CHOOSE x \in S : \A y \in S : x <= y
         IN <<least>> \o SortAsc(S \ {least})

\* line 26: sorted(df["cidade"].unique())
sorted_cidades(t) ==
    LET present == Unique(t, "cidade")
    IN SelectSeq(CityNames, LAMBDA c : c \in present)

\* line 27: sorted(df["year"].unique()); a NaN year stays in the list
sorted_anos(t) ==
    LET ys == Unique(t, "year")
        nums == SortAsc({y.v : y \in {z \in ys : ~z.nan}})
    IN [i \in 1..Len(nums) |-> Num(nums[i])] \o (IF NaN \in ys THEN <<NaN>> ELSE <<>>)

\* lines 26-27
Globals ==
    /\ pc = "loaded"
    /\ cidades' = sorted_cidades(df)
    /\ anos' = sorted_anos(df)
    /\ pc' = "ready"
    /\ UNCHANGED <<file, error, df, call, out, clients>>

\* Faulty variant of LayoutRaises: a layout that tolerates empty lists.
LayoutRaises_tolerating_empty == \E i \in 1..Len(anos) : anos[i].nan

\* lines 64-154: min(anos) and cidades[0] raise on an empty list (77, 114),
\* int(a) raises on a NaN year (80)
LayoutRaises ==
    \/ anos = <<>>
    \/ cidades = <<>>
    \/ \E i \in 1..Len(anos) : anos[i].nan

Layout ==
    /\ pc = "ready"
    /\ IF LayoutRaises
       THEN pc' = "failed" /\ error' = "layout"
       ELSE pc' = "serving" /\ error' = error
    /\ UNCHANGED <<file, df, cidades, anos, call, out, clients>>

---------------------------------------------------------------------------
(* Exact means *)

RNaN == [nan |-> TRUE, num |-> 0, den |-> 1]
Rat(n, d) == [nan |-> FALSE, num |-> n, den |-> d]

RSub(a, b) ==
    IF a.nan \/ b.nan THEN RNaN
    ELSE Rat(a.num * b.den - b.num * a.den, a.den * b.den)

RECURSIVE SumSeq(_)
SumSeq(s) == IF s = <<>> THEN 0 ELSE Head(s) + SumSeq(Tail(s))

\* Series.mean(): NaN on an empty series
Mean(s) == IF s = <<>> THEN RNaN ELSE Rat(SumSeq(s), Len(s))

\* one column of a frame, in row order
Column(t, col) == [i \in 1..Len(t) |-> t[i][col]]

---------------------------------------------------------------------------
(* The aggregation functions, lines 30-57 *)

\* line 31
anomalies_filter(t, cidade, ano_inicio, ano_fim) ==
    SelectSeq(t, LAMBDA r : /\ r.cidade = cidade
                            /\ FGe(r.year, Num(ano_inicio))
                            /\ FLe(r.year, Num(ano_fim)))

\* Faulty variant of anomalies_baseline: the mean of the per-year means
\* instead of the mean over all filtered rows.
anomalies_baseline_of_yearly_means(dff) ==
    LET keys == SortAsc({dff[i].year.v : i \in 1..Len(dff)})
        rows(y) == SelectSeq(dff, LAMBDA r : r.year.v = y)
        temps(y) == Column(rows(y), "tempMed")
        \* sum of s_y / n_y over the years, on the common denominator prod n_y
        RECURSIVE Acc(_)
        Acc(k) == IF k = 0 THEN Rat(0, 1)
                  ELSE LET a == Acc(k - 1)
                           n == Len(temps(keys[k]))
                       IN Rat(a.num * n + SumSeq(temps(keys[k])) * a.den, a.den * n)
    IN IF dff = <<>> THEN RNaN
       ELSE Rat(Acc(Len(keys)).num, Acc(Len(keys)).den * Len(keys))

\* line 32
anomalies_baseline(dff) == Mean(Column(dff, "tempMed"))

\* lines 30-35; groupby sorts its keys and drops NaN keys
calculate_anomalies(t, cidade, ano_inicio, ano_fim) ==
    LET dff == anomalies_filter(t, cidade, ano_inicio, ano_fim)
        baseline == anomalies_baseline(dff)
        keys == SortAsc({r.year.v : r \in {dff[i] : i \in {j \in 1..Len(dff) : ~dff[j].year.nan}}})
        group(y) == SelectSeq(dff, LAMBDA r : FEq(r.year, Num(y)))
        mean(y) == Mean(Column(group(y), "tempMed"))
    IN [k \in 1..Len(keys) |->
            [year |-> keys[k], tempMed |-> mean(keys[k]),
             anomalia |-> RSub(mean(keys[k]), baseline)]]

\* line 41-44
all_months ==
    <<"January", "February", "March", "April", "May", "June",
      "July", "August", "September", "October", "November", "December">>

\* strftime("%B"): the English month name; no name for NaT
strftime_B(ts) == IF ts.nat THEN "NaN" ELSE all_months[ts.m]

\* Faulty variant of hw_monthly_filter: the heat-wave test is left out.
hw_monthly_filter_any_flag(t, cidade, ano) ==
    SelectSeq(t, LAMBDA r : r.cidade = cidade /\ FEq(r.year, Num(ano)))

\* line 38
hw_monthly_filter(t, cidade, ano) ==
    SelectSeq(t, LAMBDA r : /\ r.cidade = cidade
                            /\ FEq(r.year, Num(ano))
                            /\ r.isHW = TRUE_STR)

\* Faulty variant of fillna: the missing counts stay NaN.
fillna_skipped(x) == x

\* fillna({...: 0})
fillna(x) == IF x.nan THEN Num(0) ELSE x

\* lines 37-48.  groupby("mes").size() has one row per month name present
\* (NaN keys dropped); the left merge keeps the 12 rows of all_months in
\* their order, with NaN where the name has no group.
calculate_hw_monthly(t, cidade, ano) ==
    LET dff == hw_monthly_filter(t, cidade, ano)
        mes == [i \in 1..Len(dff) |-> strftime_B(dff[i].index)]
        groups == {mes[i] : i \in 1..Len(mes)} \ {"NaN"}
        size(name) == Len(SelectSeq(mes, LAMBDA x : x = name))
        merged(name) == IF name \in groups THEN Num(size(name)) ELSE NaN
    IN [i \in 1..Len(all_months) |->
            [mes |-> all_months[i], frequencia |-> fillna(merged(all_months[i]))]]

\* Faulty variant of dias_ondas_calor: the city test is left out.
dias_ondas_calor_any_city(t, cidade) ==
    LET dff == SelectSeq(t, LAMBDA r : r.isHW = TRUE_STR)
    IN Column(dff, "index")

\* lines 50-51; .dt.date keeps NaT
dias_ondas_calor(t, cidade) ==
    LET dff == SelectSeq(t, LAMBDA r : r.cidade = cidade /\ r.isHW = TRUE_STR)
    IN Column(dff, "index")

\* line 55: range(1981, 2024)
HeatmapFirstYear == 1981
HeatmapStopYear == 2024

\* Faulty variant of heatmap_years: range(1981, 2023), one year short.
heatmap_years_short ==
    [i \in 1..(HeatmapStopYear - HeatmapFirstYear - 1) |-> HeatmapFirstYear + i - 1]

heatmap_years == [i \in 1..(HeatmapStopYear - HeatmapFirstYear) |-> HeatmapFirstYear + i - 1]

\* line 54
heatmap_filter(t) == SelectSeq(t, LAMBDA r : r.isHW = TRUE_STR)

\* lines 53-57, reading the global cidades.  The groupby has one row per
\* (cidade, year) present among the heat-wave rows (NaN years dropped); the
\* left merge keeps every row of the product, in product order.
prepare_heatmap_data(t, cids) ==
    LET hw == heatmap_filter(t)
        groups == {<<hw[i].cidade, hw[i].year.v>> : i \in {j \in 1..Len(hw) : ~hw[j].year.nan}}
        size(c, y) == Len(SelectSeq(hw, LAMBDA r : r.cidade = c /\ FEq(r.year, Num(y))))
        merged(c, y) == IF <<c, y>> \in groups THEN Num(size(c, y)) ELSE NaN
        ny == Len(heatmap_years)
        city(k) == cids[((k - 1) \div ny) + 1]
        year(k) == heatmap_years[((k - 1) % ny) + 1]
    IN [k \in 1..(Len(cids) * ny) |->
            [cidade |-> city(k), year |-> year(k),
             dias_hw |-> fillna(merged(city(k), year(k)))]]

---------------------------------------------------------------------------
(* Selector values *)

CitySelectors == {CityNames[i] : i \in 1..Len(CityNames)}
YearSelectors == {2020, 2021}
YearRanges == {p \in YearSelectors \X YearSelectors : p[1] <= p[2]}

\* An aggregation function applied on its own to the loaded table: the
\* functions exist once lines 25-57 have run.
FunctionsDefined == pc = "ready" /\ call = NoCall

Apply_calculate_anomalies ==
    /\ FunctionsDefined
    /\ \E c \in CitySelectors, p \in YearRanges :
          /\ call' = [fn |-> "calculate_anomalies", cidade |-> c,
                      ano_inicio |-> p[1], ano_fim |-> p[2]]
          /\ out' = calculate_anomalies(df, c, p[1], p[2])
    /\ UNCHANGED <<file, pc, error, df, cidades, anos, clients>>

Apply_calculate_hw_monthly ==
    /\ FunctionsDefined
    /\ \E c \in CitySelectors, a \in YearSelectors :
          /\ call' = [fn |-> "calculate_hw_monthly", cidade |-> c, ano |-> a]
          /\ out' = calculate_hw_monthly(df, c, a)
    /\ UNCHANGED <<file, pc, error, df, cidades, anos, clients>>

Apply_dias_ondas_calor ==
    /\ FunctionsDefined
    /\ \E c \in CitySelectors :
          /\ call' = [fn |-> "dias_ondas_calor", cidade |-> c]
          /\ out' = dias_ondas_calor(df, c)
    /\ UNCHANGED <<file, pc, error, df, cidades, anos, clients>>

Apply_prepare_heatmap_data ==
    /\ FunctionsDefined
    /\ call' = [fn |-> "prepare_heatmap_data"]
    /\ out' = prepare_heatmap_data(df, cidades)
    /\ UNCHANGED <<file, pc, error, df, cidades, anos, clients>>

---------------------------------------------------------------------------
(* The callbacks *)

\* Python's min(): the first element, replaced by each later one that is smaller
\* (the callbacks run only on tables the layout accepted, which hold no NaT)
RECURSIVE PyMinFrom(_, _)
PyMinFrom(m, s) ==
    IF s = <<>> THEN m
    ELSE PyMinFrom(IF DateLT(Head(s), m) THEN Head(s) ELSE m, Tail(s))
PyMin(s) == PyMinFrom(Head(s), Tail(s))

RECURSIVE PyMaxFrom(_, _)
PyMaxFrom(m, s) ==
    IF s = <<>> THEN m
    ELSE PyMaxFrom(IF DateLT(m, Head(s)) THEN Head(s) ELSE m, Tail(s))
PyMax(s) == PyMaxFrom(Head(s), Tail(s))

\* min() of an empty sequence raises
ValueError == [raised |-> "ValueError"]

\* Faulty variant of calendar_bounds: the first and the last heat-wave date
\* instead of the earliest and the latest.
calendar_bounds_first_last(t, cidade) ==
    LET dias_calor == dias_ondas_calor(t, cidade)
        index == Column(t, "index")
    IN IF dias_calor # <<>>
       THEN [min_date |-> dias_calor[1], max_date |-> dias_calor[Len(dias_calor)]]
       ELSE IF index = <<>> THEN ValueError
       ELSE [min_date |-> PyMin(index), max_date |-> PyMax(index)]

\* lines 271-278
calendar_bounds(t, cidade) ==
    LET dias_calor == dias_ondas_calor(t, cidade)
        index == Column(t, "index")
    IN IF dias_calor # <<>>
       THEN [min_date |-> PyMin(dias_calor), max_date |-> PyMax(dias_calor)]
       ELSE IF index = <<>> THEN ValueError
       ELSE [min_date |-> PyMin(index), max_date |-> PyMax(index)]

\* what update_temp returns: the traces of fig_temp and the anomaly table
temp_figures(t, c, ano_inicio, ano_fim) ==
    [fig_temp |-> LET dff == anomalies_filter(t, c, ano_inicio, ano_fim)
                  IN [i \in 1..Len(dff) |-> [x |-> dff[i].index, y |-> dff[i].tempMed]],
     fig_anomalia |-> calculate_anomalies(t, c, ano_inicio, ano_fim)]

\* Faulty variant of update_temp: the filtered frame is bound to the global
\* df instead of the local dff.
update_temp_rebinding_df ==
    /\ pc = "serving"
    /\ \E s \in Sessions, c \in CitySelectors, p \in YearRanges :
          /\ clients' = clients \cup {s}
          /\ call' = [fn |-> "update_temp", cidade |-> c,
                      ano_inicio |-> p[1], ano_fim |-> p[2]]
          /\ df' = anomalies_filter(df, c, p[1], p[2])
          /\ out' = temp_figures(df', c, p[1], p[2])
    /\ UNCHANGED <<file, pc, error, cidades, anos>>

\* lines 163-191, called on behalf of any session
update_temp ==
    /\ pc = "serving"
    /\ \E s \in Sessions, c \in CitySelectors, p \in YearRanges :
          /\ clients' = clients \cup {s}
          /\ call' = [fn |-> "update_temp", cidade |-> c,
                      ano_inicio |-> p[1], ano_fim |-> p[2]]
          /\ out' = temp_figures(df, c, p[1], p[2])
    /\ UNCHANGED <<file, pc, error, df, cidades, anos>>

\* lines 203-280, called on behalf of any session
update_hw ==
    /\ pc = "serving"
    /\ LET df_heatmap == prepare_heatmap_data(df, cidades)
       IN \E s \in Sessions, c \in CitySelectors, a \in YearSelectors :
          LET cal == calendar_bounds(df, c)
          IN /\ clients' = clients \cup {s}
             /\ call' = [fn |-> "update_hw", cidade |-> c, ano_polar |-> a]
             /\ out' = IF cal = ValueError THEN ValueError
                       ELSE [heatmap_fig |-> df_heatmap,
                             fig_polar |-> calculate_hw_monthly(df, c, a),
                             start_date |-> cal.min_date,
                             end_date |-> cal.max_date,
                             min_date_allowed |-> cal.min_date,
                             max_date_allowed |-> cal.max_date]
    /\ UNCHANGED <<file, pc, error, df, cidades, anos>>

---------------------------------------------------------------------------
(* Specifications *)

\* The program: start-up, then callbacks from any session in any order.
Next ==
    \/ LoadData
    \/ Globals
    \/ Layout
    \/ update_temp
    \/ update_hw

Init == InitWith(FilesOf(AppRows))

Spec == Init /\ [][Next]_vars

\* The aggregation functions as pure functions of a loaded table.
NextFn ==
    \/ LoadData
    \/ Globals
    \/ Apply_calculate_anomalies
    \/ Apply_calculate_hw_monthly
    \/ Apply_dias_ondas_calor
    \/ Apply_prepare_heatmap_data

InitFn == InitWith(FilesOf(RawRows))

SpecFn == InitFn /\ [][NextFn]_vars

---------------------------------------------------------------------------
(* Properties: helpers *)

RECURSIVE SumOver(_, _)
\* the sum of g[i] over the index set I
SumOver(I, g) ==
    IF I = {} THEN 0
    ELSE LET i == CHOOSE x \in I : TRUE IN g[i] + SumOver(I \ {i}, g)

Rows == 1..Len(df)

\* the rows whose loaded heat-wave flag is true
IsHW(i) == df[i].isHW = TRUE_STR
HasYear(i, y) == ~df[i].year.nan /\ df[i].year.v = y

CalendarMonths ==
    <<"January", "February", "March", "April", "May", "June",
      "July", "August", "September", "October", "November", "December">>

\* the i-th smallest element of a set of row numbers
Kth(I, k) == CHOOSE i \in I : Cardinality({j \in I : j < i}) = k - 1

NonDecreasing(dates) ==
    \A k \in 1..(Len(dates) - 1) : ~DateLT(dates[k + 1], dates[k])

---------------------------------------------------------------------------
(* C1 *)

\* C1: calculate_hw_monthly returns exactly 12 records named January to
\* December in calendar order; each month's count is the number of rows of
\* the given city and year with a true heat-wave flag that fall in that
\* month, so the 12 counts add up to the number of such rows.
C1_MonthlyFrequency ==
    call.fn = "calculate_hw_monthly" =>
        LET match == {i \in Rows : /\ df[i].cidade = call.cidade
                                   /\ HasYear(i, call.ano)
                                   /\ IsHW(i)}
        IN /\ Len(out) = 12
           /\ \A k \in 1..12 :
                /\ out[k].mes = CalendarMonths[k]
                /\ out[k].frequencia = Num(Cardinality({i \in match : df[i].index.m = k}))
           /\ SumOver(1..12, [k \in 1..12 |-> out[k].frequencia.v]) = Cardinality(match)

\* three heat-wave rows of the city in January of the year, other rows elsewhere
C1_Witness ==
    /\ call.fn = "calculate_hw_monthly"
    /\ Len(out) = 12
    /\ out[1].frequencia = Num(3)
    /\ \A k \in 2..12 : out[k].frequencia = Num(0)

---------------------------------------------------------------------------
(* C2 *)

HeatmapSpan == 1981..2023
KnownCities == {df[i].cidade : i \in Rows}

\* C2: prepare_heatmap_data returns |cities| x 43 rows, exactly one for each
\* known city and each year of 1981..2023; a cell holds the number of
\* heat-wave rows of its city and year, and the cells add up to the number of
\* heat-wave rows whose year lies in 1981..2023.
C2_HeatmapGrid ==
    call.fn = "prepare_heatmap_data" =>
        /\ Len(out) = Cardinality(KnownCities) * 43
        /\ \A c \in KnownCities, y \in HeatmapSpan :
             Cardinality({k \in 1..Len(out) : out[k].cidade = c /\ out[k].year = y}) = 1
        /\ \A k \in 1..Len(out) :
             /\ out[k].cidade \in KnownCities
             /\ out[k].year \in HeatmapSpan
             /\ out[k].dias_hw =
                  Num(Cardinality({i \in Rows : /\ df[i].cidade = out[k].cidade
                                                /\ HasYear(i, out[k].year)
                                                /\ IsHW(i)}))
        /\ SumOver(1..Len(out), [k \in 1..Len(out) |-> out[k].dias_hw.v])
             = Cardinality({i \in Rows : /\ IsHW(i)
                                         /\ ~df[i].year.nan
                                         /\ df[i].year.v \in HeatmapSpan})

\* two cities, a heat-wave row inside the span and one outside it
C2_Witness ==
    /\ call.fn = "prepare_heatmap_data"
    /\ Len(out) = 86
    /\ \E i \in Rows : IsHW(i) /\ HasYear(i, 1980)
    /\ \E k \in 1..Len(out) : out[k].dias_hw = Num(2)

---------------------------------------------------------------------------
(* C3 *)

\* C3 as stated: for every table, the dates returned by dias_ondas_calor are
\* dates of heat-wave rows of the city and each is not earlier than the one
\* before it.
C3_DatesNonDecreasing ==
    call.fn = "dias_ondas_calor" =>
        /\ \A k \in 1..Len(out) :
             \E i \in Rows : df[i].cidade = call.cidade /\ IsHW(i) /\ out[k] = df[i].index
        /\ NonDecreasing(out)

\* C3 as amended: dias_ondas_calor returns the dates of the heat-wave rows of
\* the city, one per row and in table order; the result is non-decreasing
\* whenever those rows stand in non-decreasing date order in the table.
C3_DatesInTableOrder ==
    call.fn = "dias_ondas_calor" =>
        LET match == {i \in Rows : df[i].cidade = call.cidade /\ IsHW(i)}
        IN /\ Len(out) = Cardinality(match)
           /\ \A k \in 1..Len(out) : out[k] = df[Kth(match, k)].index
           /\ (\A i, j \in match : i < j => ~DateLT(df[j].index, df[i].index))
                 => NonDecreasing(out)

\* two heat-wave dates of the city, the earlier one first, other rows skipped
C3_Witness ==
    /\ call.fn = "dias_ondas_calor"
    /\ Len(out) = 2
    /\ DateLT(out[1], out[2])
    /\ Len(df) = 3

---------------------------------------------------------------------------
(* C4 *)

\* the rows calculate_anomalies is asked about
AnomalyRows ==
    {i \in Rows : /\ df[i].cidade = call.cidade
                  /\ ~df[i].year.nan
                  /\ call.ano_inicio <= df[i].year.v
                  /\ df[i].year.v <= call.ano_fim}

TempSum(I) == SumOver(I, [i \in I |-> df[i].tempMed])

\* p/q + r/s and p/q - r/s on a common denominator
RPlus(a, b) == Rat(a.num * b.den + b.num * a.den, a.den * b.den)
RMinus(a, b) == Rat(a.num * b.den - b.num * a.den, a.den * b.den)
REqual(a, b) == ~a.nan /\ ~b.nan /\ a.num * b.den = b.num * a.den

RECURSIVE MeanMinusAnomalySum(_, _)
\* the sum of (per-year mean - anomaly) over the first k records
MeanMinusAnomalySum(recs, k) ==
    IF k = 0 THEN Rat(0, 1)
    ELSE RPlus(MeanMinusAnomalySum(recs, k - 1),
               RMinus(recs[k].tempMed, recs[k].anomalia))

\* C4: with at least one matching row, calculate_anomalies returns one record
\* per distinct year of the matching rows, in ascending year order; a record's
\* anomaly is its year's mean of tempMed minus the mean of tempMed over all
\* matching rows together, so the sum of (mean - anomaly) over the records is
\* that baseline times the number of years.
C4_Anomalies ==
    (call.fn = "calculate_anomalies" /\ AnomalyRows # {}) =>
        LET years == {df[i].year.v : i \in AnomalyRows}
            of_year(y) == {i \in AnomalyRows : df[i].year.v = y}
            total == TempSum(AnomalyRows)
            n == Cardinality(AnomalyRows)
        IN /\ Len(out) = Cardinality(years)
           /\ \A k \in 1..Len(out) : out[k].year \in years
           /\ \A k \in 1..(Len(out) - 1) : out[k].year < out[k + 1].year
           /\ \A k \in 1..Len(out) :
                LET ys == of_year(out[k].year)
                    ny == Cardinality(ys)
                IN /\ REqual(out[k].tempMed, Rat(TempSum(ys), ny))
                   /\ REqual(out[k].anomalia, Rat(TempSum(ys) * n - total * ny, ny * n))
           /\ REqual(MeanMinusAnomalySum(out, Len(out)), Rat(total * Len(out), n))

\* two years with different numbers of rows, so that the mean of the yearly
\* means is not the baseline: the two anomalies do not cancel
C4_Witness ==
    /\ call.fn = "calculate_anomalies"
    /\ Len(out) = 2
    /\ Cardinality(AnomalyRows) = 3
    /\ RPlus(out[1].anomalia, out[2].anomalia).num # 0

---------------------------------------------------------------------------
(* C5 *)

\* C5: on a non-empty table, selector values that match no row give an empty
\* or zero-filled result: calculate_anomalies an empty sequence,
\* calculate_hw_monthly 12 records with count 0, dias_ondas_calor an empty
\* list, and prepare_heatmap_data the full grid with 0 in every cell that no
\* row matches.
C5_EmptySelection ==
    Len(df) > 0 =>
        /\ (call.fn = "calculate_anomalies" /\ AnomalyRows = {}) => out = <<>>
        /\ (/\ call.fn = "calculate_hw_monthly"
            /\ ~\E i \in Rows : df[i].cidade = call.cidade /\ HasYear(i, call.ano))
              => /\ Len(out) = 12
                 /\ \A k \in 1..12 : out[k].frequencia = Num(0)
        /\ (/\ call.fn = "dias_ondas_calor"
            /\ ~\E i \in Rows : df[i].cidade = call.cidade)
              => out = <<>>
        /\ call.fn = "prepare_heatmap_data"
              => /\ Len(out) = Cardinality(KnownCities) * 43
                 /\ \A k \in 1..Len(out) :
                      (~\E i \in Rows : /\ df[i].cidade = out[k].cidade
                                        /\ HasYear(i, out[k].year)
                                        /\ IsHW(i))
                        => out[k].dias_hw = Num(0)

\* a city of the table asked for a year in which it has no row
C5_Witness ==
    /\ Len(df) > 0
    /\ call.fn = "calculate_hw_monthly"
    /\ \E i \in Rows : df[i].cidade = call.cidade
    /\ ~\E i \in Rows : df[i].cidade = call.cidade /\ HasYear(i, call.ano)
    /\ \A k \in 1..12 : out[k].frequencia = Num(0)

---------------------------------------------------------------------------
(* C6 *)

\* the table without the rows whose timestamp did not parse
ParsedRows == SelectSeq(df, LAMBDA r : ~r.index.nat)

\* C6: a row whose timestamp did not parse is left out of every
\* date-dependent aggregation: calculate_anomalies, calculate_hw_monthly and
\* dias_ondas_calor return what they return on the table without such rows,
\* and no returned heat-wave date is missing.
C6_MissingTimestampExcluded ==
    /\ call.fn = "calculate_anomalies"
          => out = calculate_anomalies(ParsedRows, call.cidade, call.ano_inicio, call.ano_fim)
    /\ call.fn = "calculate_hw_monthly"
          => out = calculate_hw_monthly(ParsedRows, call.cidade, call.ano)
    /\ call.fn = "dias_ondas_calor"
          => /\ out = dias_ondas_calor(ParsedRows, call.cidade)
             /\ \A k \in 1..Len(out) : ~out[k].nat

\* the part of C6 the code keeps: the two aggregations that filter on the year
C6_YearFilteredPart ==
    /\ call.fn = "calculate_anomalies"
          => out = calculate_anomalies(ParsedRows, call.cidade, call.ano_inicio, call.ano_fim)
    /\ call.fn = "calculate_hw_monthly"
          => out = calculate_hw_monthly(ParsedRows, call.cidade, call.ano)

---------------------------------------------------------------------------
(* C8 *)

\* the raw isHW values the claim lists as heat-wave values
TrueEncodings ==
    { StrVal(<<"t", "r", "u", "e">>), StrVal(<<"T", "r", "u", "e">>),
      StrVal(<<"T", "R", "U", "E">>), BoolVal(TRUE) }

\* the rows whose raw flag is one of them
RawHW(i) == file.rows[i].isHW \in TrueEncodings

\* C8: after load a row counts as a heat-wave row in calculate_hw_monthly,
\* dias_ondas_calor and prepare_heatmap_data exactly when its raw isHW value
\* is "true", "True", "TRUE" or boolean true; 1, "yes", " TRUE" and a missing
\* value do not count.
C8_HeatWaveFlag ==
    (file.readable /\ pc # "start") =>
        /\ Len(df) = Len(file.rows)
        /\ \A i \in Rows : IsHW(i) <=> RawHW(i)
        /\ call.fn = "dias_ondas_calor"
              => Len(out) = Cardinality({i \in Rows :
                                df[i].cidade = call.cidade /\ RawHW(i)})
        /\ call.fn = "calculate_hw_monthly"
              => SumOver(1..Len(out), [k \in 1..Len(out) |-> out[k].frequencia.v])
                   = Cardinality({i \in Rows : /\ df[i].cidade = call.cidade
                                               /\ HasYear(i, call.ano)
                                               /\ RawHW(i)})
        /\ call.fn = "prepare_heatmap_data"
              => SumOver(1..Len(out), [k \in 1..Len(out) |-> out[k].dias_hw.v])
                   = Cardinality({i \in Rows : /\ RawHW(i)
                                               /\ ~df[i].year.nan
                                               /\ df[i].year.v \in HeatmapSpan})

\* a city with a boolean true, a lower-case "true" and a " TRUE" row: two dates
C8_Witness ==
    /\ call.fn = "dias_ondas_calor"
    /\ Len(out) = 2
    /\ \E i, j, k \in Rows :
          /\ df[i].cidade = call.cidade /\ file.rows[i].isHW = BoolVal(TRUE)
          /\ df[j].cidade = call.cidade /\ file.rows[j].isHW = StrVal(<<"t", "r", "u", "e">>)
          /\ df[k].cidade = call.cidade /\ file.rows[k].isHW = StrVal(<<" ", "T", "R", "U", "E">>)

---------------------------------------------------------------------------
(* C7 *)

NoRows == ~file.readable \/ Len(file.rows) = 0

\* C7 as stated: when the resource is unreadable or has no rows, load_data
\* itself fails; it never returns an empty table from which start-up goes on.
C7_LoaderFailsFast ==
    NoRows => /\ pc \in {"start", "failed"}
              /\ pc = "failed" => error = "load_data"

\* C7 as amended: an unreadable resource makes load_data itself fail; a
\* readable resource without rows is returned by load_data as an empty table,
\* start-up goes on through the globals and fails while the layout is built,
\* so the program never serves an empty table.
C7_StartupFails ==
    NoRows =>
        /\ pc # "serving"
        /\ ~file.readable => /\ pc \in {"start", "failed"}
                             /\ pc = "failed" => error = "load_data"
        /\ file.readable => /\ pc # "start" => df = <<>>
                            /\ pc = "failed" => error = "layout"
        /\ pc = "ready" => LayoutRaises

\* the spreadsheet without rows has been loaded and the layout has raised
C7_Witness ==
    /\ file.readable
    /\ Len(file.rows) = 0
    /\ pc = "failed"
    /\ error = "layout"
    /\ df = <<>>

---------------------------------------------------------------------------
(* C9 *)

\* the table as load_data returned it
LoadedTable == load_data(file.rows)

\* C9: whatever callbacks the sessions have issued, and in whatever order,
\* the table and the globals are as start-up left them, and what the last
\* callback returned is what its own arguments give on that table.
C9_TableUnchangedResultsPure ==
    (file.readable /\ pc # "start") =>
        /\ df = LoadedTable
        /\ pc # "loaded" => /\ cidades = sorted_cidades(LoadedTable)
                            /\ anos = sorted_anos(LoadedTable)
        /\ call.fn = "update_temp"
              => out = temp_figures(LoadedTable, call.cidade, call.ano_inicio, call.ano_fim)
        /\ call.fn = "update_hw"
              => /\ out.heatmap_fig
                      = prepare_heatmap_data(LoadedTable, sorted_cidades(LoadedTable))
                 /\ out.fig_polar
                      = calculate_hw_monthly(LoadedTable, call.cidade, call.ano_polar)
                 /\ out.start_date = calendar_bounds(LoadedTable, call.cidade).min_date
                 /\ out.end_date = calendar_bounds(LoadedTable, call.cidade).max_date

\* both sessions have issued callbacks and the last one returned data
C9_Witness ==
    /\ pc = "serving"
    /\ clients = Sessions
    /\ call.fn = "update_temp"
    /\ Len(out.fig_anomalia) = 2
    /\ Len(df) = 3

---------------------------------------------------------------------------
(* C10 *)

\* C10: update_hw sets start_date and min_date_allowed to the earliest and
\* end_date and max_date_allowed to the latest heat-wave date of the selected
\* city, or, when the city has no heat-wave row, to the earliest and latest
\* timestamp of the whole table; the minimum is never later than the maximum.
C10_CalendarBounds ==
    call.fn = "update_hw" =>
        LET hw == {df[i].index : i \in {j \in Rows : df[j].cidade = call.cidade /\ IsHW(j)}}
            all == {df[i].index : i \in Rows}
            dates == IF hw # {} THEN hw ELSE all
        IN /\ out.start_date = out.min_date_allowed
           /\ out.end_date = out.max_date_allowed
           /\ out.start_date \in dates
           /\ \A d \in dates : ~DateLT(d, out.start_date)
           /\ out.end_date \in dates
           /\ \A d \in dates : ~DateLT(out.end_date, d)
           /\ ~DateLT(out.end_date, out.start_date)

\* the city's later heat-wave date stands before its earlier one in the table
C10_Witness ==
    /\ call.fn = "update_hw"
    /\ \E i, j \in Rows :
          /\ i < j
          /\ df[i].cidade = call.cidade /\ IsHW(i)
          /\ df[j].cidade = call.cidade /\ IsHW(j)
          /\ DateLT(df[j].index, df[i].index)
    /\ DateLT(out.start_date, out.end_date)

\* the selected city has no heat-wave row: the bounds are those of the table
C10_FallbackReached ==
    /\ call.fn = "update_hw"
    /\ ~\E i \in Rows : df[i].cidade = call.cidade /\ IsHW(i)
    /\ DateLT(out.min_date_allowed, out.max_date_allowed)

=============================================================================
